---- MODULE Spec2Model ----
(***************************************************************************)
(* Model of the deposit state machine of the minter: the log-entry parser  *)
(* (eth_logs/mod.rs), the three-way partition of deposits kept by State    *)
(* (state.rs) and the timer guard (guard/mod.rs).                          *)
(***************************************************************************)
EXTENDS Integers, Sequences, FiniteSets, TLC

VARIABLES
    events_to_mint,   \* State::events_to_mint   : EventSource -> TransferEvent
    minted_events,    \* State::minted_events    : EventSource -> MintedEvent
    invalid_events,   \* State::invalid_events   : EventSource -> String
    mint_count,       \* history: normal returns of record_successful_mint per source
    active_tasks,     \* State::active_tasks     : set of TaskType
    guards,           \* live TimerGuard values, one slot per pass
    trail,            \* history: the last three calls on the guard
    entry,            \* the LogEntry handed to TryFrom<LogEntry>
    parsed,           \* the outcome of TryFrom<LogEntry> for entry
    pc,               \* per pass: outside or inside the scope of its guard
    inflight,         \* per pass: the block range of the fetch it awaits
    installed,        \* STATE holds Some(State)
    ethereum_network, \* State::ethereum_network
    ethereum_contract_address,   \* State::ethereum_contract_address
    ethereum_block_height,       \* State::ethereum_block_height
    first_scraped_block_number,  \* State::first_scraped_block_number
    last_scraped_block_number,   \* State::last_scraped_block_number
    skipped_blocks,   \* State::skipped_blocks
    events,           \* storage::EVENTS, the audit log
    scan,             \* the last call of last_received_eth_events
    fetched,          \* the last answer of the fetch collaborator
    http_request_counter,  \* State::http_request_counter
    assets,           \* storage::ASSETS : path -> encoded Asset
    reply,            \* the answer of the last query
    ret               \* the outcome of the last call

vars == <<events_to_mint, minted_events, invalid_events, mint_count,
          active_tasks, guards, trail, entry, parsed, pc, inflight, installed,
          ethereum_network,
          ethereum_contract_address, ethereum_block_height,
          first_scraped_block_number, last_scraped_block_number,
          skipped_blocks, events, scan, fetched, http_request_counter,
          assets, reply, ret>>

stateVars == <<events_to_mint, minted_events, invalid_events, mint_count>>
guardVars == <<active_tasks, guards, trail>>
parseVars == <<entry, parsed>>
scopeVars == <<pc, inflight>>
configVars == <<installed, ethereum_network, ethereum_contract_address, ethereum_block_height,
                first_scraped_block_number, last_scraped_block_number,
                skipped_blocks>>
auditVars == <<configVars, events, scan, fetched>>
serviceVars == <<http_request_counter, assets, reply>>

(***************************************************************************)
(* Bounds of the model.                                                    *)
(***************************************************************************)
MaxTx == 2          \* transaction hashes 1..MaxTx
MaxTopics == 5      \* a log entry carries 0..MaxTopics topics
NumPasses == 3      \* concurrently scheduled passes
MaxDeposits == 3    \* deposits recorded in the three partitions together
MaxBlock == 2       \* block numbers 0..MaxBlock
MaxEvents == 4      \* entries of the audit log

(***************************************************************************)
(* Value domains.                                                          *)
(***************************************************************************)
None == <<>>
Some(x) == <<x>>
IsSome(o) == o # None
Unwrap(o) == o[1]
Option(S) == {None} \cup {Some(x) : x \in S}

TxHashes == 1..MaxTx
LogIndexes == {0, 1}
BlockNumbers == {1, 2}

\* A 32-byte topic word: hi stands for the 12 leading bytes, lo for the 20
\* trailing ones.
Topics == {[hi |-> 0, lo |-> 1], [hi |-> 0, lo |-> 2], [hi |-> 1, lo |-> 1]}

Addresses == {1, 2}

\* TRANSFER_EVENT_TOPIC: the signature word, whose leading bytes are not zero.
TRANSFER_EVENT_TOPIC == [hi |-> 1, lo |-> 1]

\* TokenId::from_be_bytes: the big-endian value of the whole word, written
\* as its two digits <<leading part, trailing part>>.
from_be_bytes(word) == <<word.hi, word.lo>>

TokenIds == {from_be_bytes(w) : w \in {t \in Topics : t.hi = 0}}

EventSource == [transaction_hash : TxHashes, log_index : LogIndexes]

TransferEvent == [transaction_hash : TxHashes, block_number : BlockNumbers,
                  log_index : LogIndexes, from_address : Addresses,
                  to_address : Addresses,
                  token_id : {from_be_bytes(w) : w \in Topics}]

source(event) ==
    [transaction_hash |-> event.transaction_hash, log_index |-> event.log_index]

TaskType == {"MintCkEth", "RetrieveEth", "ScrapEthLogs", "Reimbursement"}

Passes == 1..NumPasses

(***************************************************************************)
(* BTreeMap as a function with a finite domain.                            *)
(***************************************************************************)
EmptyMap == [k \in {} |-> None]
contains_key(m, k) == k \in DOMAIN m
MapInsert(m, k, v) == [x \in (DOMAIN m) \cup {k} |-> IF x = k THEN v ELSE m[x]]
MapRemove(m, k) == [x \in (DOMAIN m) \ {k} |-> m[x]]

Ret(op, result) == [op |-> op, result |-> result]

(***************************************************************************)
(* State mutators (state.rs).  A failed assertion or panic! leaves the     *)
(* fields as the code left them and is recorded in ret.                    *)
(***************************************************************************)
Reasons == {"this event has been removed from the chain",
            "Expected exactly 3 topics"}

\* The events handed to the mutators: two per source, differing in token_id.
StateEvents == {e \in TransferEvent :
                  /\ e.block_number = 1
                  /\ e.from_address = 1
                  /\ e.to_address = 2
                  /\ e.token_id \in TokenIds}

MintedEvent(mint_event) == [mint_event |-> mint_event]

\* record_event_to_mint without its three assertions.
record_event_to_mint_unchecked(event) ==
    /\ events_to_mint' = MapInsert(events_to_mint, source(event), event)
    /\ ret' = Ret("record_event_to_mint", "unit")
    /\ UNCHANGED <<minted_events, invalid_events, mint_count>>

\* record_event_to_mint without the assertion on minted_events.
record_event_to_mint_minted_unchecked(event) ==
    LET event_source == source(event) IN
    IF \/ contains_key(events_to_mint, event_source)
       \/ contains_key(invalid_events, event_source)
    THEN /\ ret' = Ret("record_event_to_mint", "panic")
         /\ UNCHANGED stateVars
    ELSE /\ events_to_mint' = MapInsert(events_to_mint, event_source, event)
         /\ ret' = Ret("record_event_to_mint", "unit")
         /\ UNCHANGED <<minted_events, invalid_events, mint_count>>

record_event_to_mint(event) ==
    LET event_source == source(event) IN
    IF \/ contains_key(events_to_mint, event_source)
       \/ contains_key(minted_events, event_source)
       \/ contains_key(invalid_events, event_source)
    THEN /\ ret' = Ret("record_event_to_mint", "panic")
         /\ UNCHANGED stateVars
    ELSE /\ events_to_mint' = MapInsert(events_to_mint, event_source, event)
         /\ ret' = Ret("record_event_to_mint", "unit")
         /\ UNCHANGED <<minted_events, invalid_events, mint_count>>

\* record_invalid_deposit that overwrites the reason of an occupied entry.
record_invalid_deposit_overwrite(src, error) ==
    IF \/ contains_key(events_to_mint, src)
       \/ contains_key(minted_events, src)
    THEN /\ ret' = Ret("record_invalid_deposit", "panic")
         /\ UNCHANGED stateVars
    ELSE /\ invalid_events' = MapInsert(invalid_events, src, error)
         /\ ret' = Ret("record_invalid_deposit",
                       IF contains_key(invalid_events, src) THEN "false" ELSE "true")
         /\ UNCHANGED <<events_to_mint, minted_events, mint_count>>

\* record_invalid_deposit without the assertion on minted_events.
record_invalid_deposit_minted_unchecked(src, error) ==
    IF contains_key(events_to_mint, src)
    THEN /\ ret' = Ret("record_invalid_deposit", "panic")
         /\ UNCHANGED stateVars
    ELSE IF contains_key(invalid_events, src)
    THEN /\ ret' = Ret("record_invalid_deposit", "false")
         /\ UNCHANGED stateVars
    ELSE /\ invalid_events' = MapInsert(invalid_events, src, error)
         /\ ret' = Ret("record_invalid_deposit", "true")
         /\ UNCHANGED <<events_to_mint, minted_events, mint_count>>

\* record_invalid_deposit without the assertion on events_to_mint.
record_invalid_deposit_pending_unchecked(src, error) ==
    IF contains_key(minted_events, src)
    THEN /\ ret' = Ret("record_invalid_deposit", "panic")
         /\ UNCHANGED stateVars
    ELSE IF contains_key(invalid_events, src)
    THEN /\ ret' = Ret("record_invalid_deposit", "false")
         /\ UNCHANGED stateVars
    ELSE /\ invalid_events' = MapInsert(invalid_events, src, error)
         /\ ret' = Ret("record_invalid_deposit", "true")
         /\ UNCHANGED <<events_to_mint, minted_events, mint_count>>

record_invalid_deposit(src, error) ==
    IF \/ contains_key(events_to_mint, src)
       \/ contains_key(minted_events, src)
    THEN /\ ret' = Ret("record_invalid_deposit", "panic")
         /\ UNCHANGED stateVars
    ELSE IF contains_key(invalid_events, src)
    THEN /\ ret' = Ret("record_invalid_deposit", "false")
         /\ UNCHANGED stateVars
    ELSE /\ invalid_events' = MapInsert(invalid_events, src, error)
         /\ ret' = Ret("record_invalid_deposit", "true")
         /\ UNCHANGED <<events_to_mint, minted_events, mint_count>>

\* record_successful_mint that leaves the event in events_to_mint.
record_successful_mint_keep_pending(src) ==
    IF contains_key(invalid_events, src) \/ ~contains_key(events_to_mint, src)
    THEN /\ ret' = Ret("record_successful_mint", "panic")
         /\ UNCHANGED stateVars
    ELSE /\ minted_events' = MapInsert(minted_events, src, MintedEvent(events_to_mint[src]))
         /\ ret' = Ret("record_successful_mint", "unit")
         /\ mint_count' = [mint_count EXCEPT ![src] = @ + 1]
         /\ UNCHANGED <<events_to_mint, invalid_events>>

\* record_successful_mint that mints a source unknown to events_to_mint.
record_successful_mint_unknown(src) ==
    IF contains_key(invalid_events, src)
    THEN /\ ret' = Ret("record_successful_mint", "panic")
         /\ UNCHANGED stateVars
    ELSE /\ events_to_mint' = MapRemove(events_to_mint, src)
         /\ minted_events' = MapInsert(minted_events, src,
                IF contains_key(events_to_mint, src)
                THEN MintedEvent(events_to_mint[src])
                ELSE IF contains_key(minted_events, src) THEN minted_events[src]
                ELSE MintedEvent(CHOOSE e \in StateEvents : source(e) = src))
         /\ ret' = Ret("record_successful_mint", "unit")
         /\ mint_count' = [mint_count EXCEPT ![src] = @ + 1]
         /\ UNCHANGED invalid_events

record_successful_mint(src) ==
    IF contains_key(invalid_events, src)
    THEN /\ ret' = Ret("record_successful_mint", "panic")
         /\ UNCHANGED stateVars
    ELSE IF ~contains_key(events_to_mint, src)
    THEN \* events_to_mint.remove(&source) found nothing
         /\ ret' = Ret("record_successful_mint", "panic")
         /\ UNCHANGED stateVars
    ELSE LET mint_event == events_to_mint[src] IN
         /\ events_to_mint' = MapRemove(events_to_mint, src)
         /\ minted_events' = MapInsert(minted_events, src, MintedEvent(mint_event))
         /\ invalid_events' = invalid_events
         /\ IF contains_key(minted_events, src)
            THEN \* assert_eq!(insert(..), None) fails after the insert
                 /\ ret' = Ret("record_successful_mint", "panic")
                 /\ mint_count' = mint_count
            ELSE /\ ret' = Ret("record_successful_mint", "unit")
                 /\ mint_count' = [mint_count EXCEPT ![src] = @ + 1]

\* Address::ZERO and the other contract addresses of the model.
ZERO == "0x00"
ContractAddresses == {ZERO, "0xa0", "0xa1"}
BlockTags == {"Latest", "Finalized"}
Blocks == 0..MaxBlock

\* STATE is None: no State has been constructed.  The fields hold
\* placeholders until init or post_upgrade assigns them.
Uninstalled ==
    /\ installed = FALSE
    /\ ethereum_network = "EthereumSepolia"
    /\ ethereum_contract_address = ZERO
    /\ ethereum_block_height = "Latest"
    /\ first_scraped_block_number = 0
    /\ last_scraped_block_number = 0
    /\ skipped_blocks = {}

(***************************************************************************)
(* The deposit state machine: any sequence of calls of the three mutators. *)
(***************************************************************************)
Init ==
    /\ events_to_mint = EmptyMap
    /\ minted_events = EmptyMap
    /\ invalid_events = EmptyMap
    /\ mint_count = [s \in EventSource |-> 0]
    /\ active_tasks = {}
    /\ guards = [p \in Passes |-> None]
    /\ trail = <<>>
    /\ entry = None
    /\ parsed = [tag |-> "NotParsed"]
    /\ pc = [p \in Passes |-> "idle"]
    /\ inflight = [p \in Passes |-> None]
    /\ Uninstalled
    /\ events = <<>>
    /\ scan = [tag |-> "NotCalled"]
    /\ fetched = "none"
    /\ http_request_counter = 0
    /\ assets = EmptyMap
    /\ reply = [tag |-> "none"]
    /\ ret = Ret("none", "none")

\* The sources recorded so far, and whether one more call about src fits the
\* bound of the model.
Known == (DOMAIN events_to_mint) \cup (DOMAIN minted_events) \cup (DOMAIN invalid_events)
Fits(src) == src \in Known \/ Cardinality(Known) < MaxDeposits

RecordEventToMint ==
    /\ \E event \in StateEvents :
          Fits(source(event)) /\ record_event_to_mint(event)
    /\ UNCHANGED <<guardVars, parseVars, scopeVars, serviceVars, auditVars>>

RecordInvalidDeposit ==
    /\ \E src \in EventSource, error \in Reasons :
          Fits(src) /\ record_invalid_deposit(src, error)
    /\ UNCHANGED <<guardVars, parseVars, scopeVars, serviceVars, auditVars>>

RecordSuccessfulMint ==
    /\ \E src \in EventSource : record_successful_mint(src)
    /\ UNCHANGED <<guardVars, parseVars, scopeVars, serviceVars, auditVars>>

Next ==
    \/ RecordEventToMint
    \/ RecordInvalidDeposit
    \/ RecordSuccessfulMint

Spec == Init /\ [][Next]_vars

(***************************************************************************)
(* Properties of the deposit partitions.                                   *)
(***************************************************************************)
InNone(src) ==
    /\ ~contains_key(events_to_mint, src)
    /\ ~contains_key(minted_events, src)
    /\ ~contains_key(invalid_events, src)

\* C1: every EventSource is a key of at most one of events_to_mint,
\* minted_events and invalid_events in every reachable state.
C1_DisjointPartitions ==
    /\ (DOMAIN events_to_mint) \cap (DOMAIN minted_events) = {}
    /\ (DOMAIN events_to_mint) \cap (DOMAIN invalid_events) = {}
    /\ (DOMAIN minted_events) \cap (DOMAIN invalid_events) = {}

\* All three partitions are populated, after calls some of which aborted.
C1_Witness ==
    /\ DOMAIN events_to_mint # {}
    /\ DOMAIN minted_events # {}
    /\ DOMAIN invalid_events # {}
    /\ ret.result = "panic"

\* C33: classification is permanent: a minted source stays minted with the
\* same event, an invalid source stays invalid with the same reason, a
\* source leaves events_to_mint only by a record_successful_mint that puts
\* its event into minted_events, no source leaves the union of the three
\* maps, and record_successful_mint never finds a source it is about to
\* mint already in minted_events.
C33_ClassificationIsPermanent ==
    [][/\ \A src \in DOMAIN minted_events :
            /\ contains_key(minted_events', src)
            /\ minted_events'[src] = minted_events[src]
       /\ \A src \in DOMAIN invalid_events :
            /\ contains_key(invalid_events', src)
            /\ invalid_events'[src] = invalid_events[src]
       /\ \A src \in (DOMAIN events_to_mint) \ (DOMAIN events_to_mint') :
            /\ ret' = Ret("record_successful_mint", "unit")
            /\ contains_key(minted_events', src)
            /\ minted_events'[src] = MintedEvent(events_to_mint[src])
       /\ (DOMAIN events_to_mint) \cup (DOMAIN minted_events) \cup (DOMAIN invalid_events)
             \subseteq (DOMAIN events_to_mint') \cup (DOMAIN minted_events')
                          \cup (DOMAIN invalid_events')
       /\ \A src \in EventSource :
            (/\ record_successful_mint(src)
             /\ ~contains_key(invalid_events, src)
             /\ contains_key(events_to_mint, src))
            => ~contains_key(minted_events, src)
       /\ ret' = Ret("record_successful_mint", "panic") => UNCHANGED stateVars]_vars

\* Every source the model has room for is minted or invalid, none is
\* pending, and a new delivery of one of them has just been refused.
C33_Witness ==
    /\ ret = Ret("record_event_to_mint", "panic")
    /\ DOMAIN events_to_mint = {}
    /\ DOMAIN minted_events # {}
    /\ DOMAIN invalid_events # {}
    /\ Cardinality((DOMAIN minted_events) \cup (DOMAIN invalid_events)) = MaxDeposits

\* C4: record_successful_mint(src) on a source that is pending and neither
\* minted nor invalid removes it from events_to_mint and inserts it into
\* minted_events in the same step, the minted record carrying the event that
\* was pending; all other keys of the three maps are unchanged.
C4_MintMovesPendingToMinted ==
    [][\A src \in EventSource :
         (/\ record_successful_mint(src)
          /\ contains_key(events_to_mint, src)
          /\ ~contains_key(minted_events, src)
          /\ ~contains_key(invalid_events, src))
         => /\ ret'.result = "unit"
            /\ DOMAIN events_to_mint' = (DOMAIN events_to_mint) \ {src}
            /\ DOMAIN minted_events' = (DOMAIN minted_events) \cup {src}
            /\ minted_events'[src].mint_event = events_to_mint[src]
            /\ \A k \in DOMAIN events_to_mint' : events_to_mint'[k] = events_to_mint[k]
            /\ \A k \in DOMAIN minted_events : minted_events'[k] = minted_events[k]
            /\ invalid_events' = invalid_events]_vars

\* A mint has returned normally while other sources stay pending and minted.
C4_Witness ==
    /\ ret = Ret("record_successful_mint", "unit")
    /\ Cardinality(DOMAIN minted_events) >= 2
    /\ DOMAIN events_to_mint # {}

\* C5: record_successful_mint(src) aborts whenever src is not in
\* events_to_mint (unknown, already minted or marked invalid), and no source
\* is minted twice.
C5_MintAbortsUnlessPending ==
    [][/\ \A src \in EventSource :
            (record_successful_mint(src) /\ ~contains_key(events_to_mint, src))
            => (ret'.result = "panic" /\ UNCHANGED stateVars)
       /\ \A src \in EventSource : mint_count'[src] <= 1]_vars

\* A mint aborted in a state where every known source is already minted or
\* invalid: the call was for an unknown, minted or invalid source.
C5_Witness ==
    /\ ret = Ret("record_successful_mint", "panic")
    /\ DOMAIN events_to_mint = {}
    /\ DOMAIN minted_events # {}
    /\ DOMAIN invalid_events # {}
    /\ \E src \in EventSource : mint_count[src] = 1

\* C6: record_event_to_mint(event) inserts event under event.source() when
\* the source is in none of the three maps and aborts without changing the
\* state when the source is a key of one of them.
C6_RecordPendingInsertsOrAborts ==
    [][\A event \in StateEvents :
         record_event_to_mint(event)
         => IF InNone(source(event))
            THEN /\ ret'.result = "unit"
                 /\ events_to_mint' = MapInsert(events_to_mint, source(event), event)
                 /\ UNCHANGED <<minted_events, invalid_events>>
            ELSE /\ ret'.result = "panic"
                 /\ UNCHANGED <<events_to_mint, minted_events, invalid_events>>]_vars

\* A duplicate delivery aborted while all three partitions hold a source.
C6_Witness ==
    /\ ret = Ret("record_event_to_mint", "panic")
    /\ DOMAIN events_to_mint # {}
    /\ DOMAIN minted_events # {}
    /\ DOMAIN invalid_events # {}

\* C7: record_invalid_deposit(src, reason) stores the reason and returns true
\* on a source absent from all maps; on a source already invalid it returns
\* false and changes nothing, whatever the reason; a stored reason is never
\* changed by any later step.
C7_InvalidDepositIdempotent ==
    [][/\ \A src \in EventSource, error \in Reasons :
            record_invalid_deposit(src, error)
            => /\ InNone(src)
                  => /\ ret'.result = "true"
                     /\ invalid_events' = MapInsert(invalid_events, src, error)
                     /\ UNCHANGED <<events_to_mint, minted_events>>
               /\ contains_key(invalid_events, src)
                  => /\ ret'.result = "false"
                     /\ UNCHANGED <<events_to_mint, minted_events, invalid_events>>
       /\ \A src \in DOMAIN invalid_events :
            /\ contains_key(invalid_events', src)
            /\ invalid_events'[src] = invalid_events[src]]_vars

\* A repeated call returned false with two different reasons in store.
C7_Witness ==
    /\ ret = Ret("record_invalid_deposit", "false")
    /\ \E s1, s2 \in DOMAIN invalid_events : invalid_events[s1] # invalid_events[s2]

\* C8: record_invalid_deposit(src, reason) aborts without changing the state
\* whenever src is a key of events_to_mint or of minted_events.
C8_InvalidDepositAbortsOnAccepted ==
    [][\A src \in EventSource, error \in Reasons :
         (/\ record_invalid_deposit(src, error)
          /\ \/ contains_key(events_to_mint, src)
             \/ contains_key(minted_events, src))
         => /\ ret'.result = "panic"
            /\ UNCHANGED <<events_to_mint, minted_events, invalid_events>>]_vars

\* The call aborted in a state with no invalid source: its argument was
\* pending or minted.
C8_Witness ==
    /\ ret = Ret("record_invalid_deposit", "panic")
    /\ DOMAIN events_to_mint # {}
    /\ DOMAIN minted_events # {}

(***************************************************************************)
(* The log-entry parser (eth_logs/mod.rs).                                 *)
(***************************************************************************)
TopicLists == UNION {[1..n -> Topics] : n \in 0..MaxTopics}

LogEntry == [block_hash : Option({1}),
             block_number : Option(BlockNumbers),
             transaction_hash : Option(TxHashes),
             transaction_index : Option({0}),
             log_index : Option(LogIndexes),
             removed : BOOLEAN,
             topics : TopicLists]

\* Address::try_from(&[u8; 32]): the 12 leading bytes must be zero.
AddressTryFrom(word) ==
    IF word.hi # 0
    THEN [tag |-> "Err"]
    ELSE [tag |-> "Ok", address |-> word.lo]

\* Vec indexing, 0-based: an index at or past the length panics.
InBounds(vec, i) == i < Len(vec)
At(vec, i) == vec[i + 1]

PendingLogEntry == [tag |-> "PendingLogEntry"]
InvalidEventSource(src, error) ==
    [tag |-> "InvalidEventSource", source |-> src, error |-> error]
Panic == [tag |-> "Panic"]
Ok(event) == [tag |-> "Ok", event |-> event]

\* try_from that checks the topic count before the removed flag.
TryFrom_count_before_removed(e) ==
    IF \/ e.block_hash = None
       \/ e.block_number = None
       \/ e.transaction_hash = None
       \/ e.transaction_index = None
       \/ e.log_index = None
    THEN PendingLogEntry
    ELSE
    LET event_source == [transaction_hash |-> Unwrap(e.transaction_hash),
                         log_index |-> Unwrap(e.log_index)]
    IN
    IF Len(e.topics) # 3
    THEN InvalidEventSource(event_source, "Expected exactly 3 topics")
    ELSE IF e.removed
    THEN InvalidEventSource(event_source, "this event has been removed from the chain")
    ELSE IF AddressTryFrom(At(e.topics, 1)).tag = "Err"
    THEN InvalidEventSource(event_source, "Invalid address in log entry")
    ELSE IF AddressTryFrom(At(e.topics, 2)).tag = "Err"
    THEN InvalidEventSource(event_source, "Invalid address in log entry")
    ELSE Panic

TryFrom(e) ==
    IF \/ e.block_hash = None
       \/ e.block_number = None
       \/ e.transaction_hash = None
       \/ e.transaction_index = None
       \/ e.log_index = None
    THEN PendingLogEntry
    ELSE
    LET block_number == Unwrap(e.block_number)
        transaction_hash == Unwrap(e.transaction_hash)
        log_index == Unwrap(e.log_index)
        event_source == [transaction_hash |-> transaction_hash,
                         log_index |-> log_index]
    IN
    IF e.removed
    THEN InvalidEventSource(event_source, "this event has been removed from the chain")
    ELSE IF Len(e.topics) # 3
    THEN InvalidEventSource(event_source, "Expected exactly 3 topics")
    ELSE IF ~InBounds(e.topics, 1)
    THEN Panic
    ELSE IF AddressTryFrom(At(e.topics, 1)).tag = "Err"
    THEN InvalidEventSource(event_source, "Invalid address in log entry")
    ELSE IF ~InBounds(e.topics, 2)
    THEN Panic
    ELSE IF AddressTryFrom(At(e.topics, 2)).tag = "Err"
    THEN InvalidEventSource(event_source, "Invalid address in log entry")
    ELSE IF ~InBounds(e.topics, 3)
    THEN Panic
    ELSE Ok([transaction_hash |-> transaction_hash,
             block_number |-> block_number,
             log_index |-> log_index,
             from_address |-> AddressTryFrom(At(e.topics, 1)).address,
             to_address |-> AddressTryFrom(At(e.topics, 2)).address,
             token_id |-> from_be_bytes(At(e.topics, 3))])

\* One raw log entry is handed to the parser.
InitParse ==
    /\ events_to_mint = EmptyMap
    /\ minted_events = EmptyMap
    /\ invalid_events = EmptyMap
    /\ mint_count = [s \in EventSource |-> 0]
    /\ active_tasks = {}
    /\ guards = [p \in Passes |-> None]
    /\ trail = <<>>
    /\ entry \in LogEntry
    /\ parsed = [tag |-> "NotParsed"]
    /\ pc = [p \in Passes |-> "idle"]
    /\ inflight = [p \in Passes |-> None]
    /\ Uninstalled
    /\ events = <<>>
    /\ scan = [tag |-> "NotCalled"]
    /\ fetched = "none"
    /\ http_request_counter = 0
    /\ assets = EmptyMap
    /\ reply = [tag |-> "none"]
    /\ ret = Ret("none", "none")

Parse ==
    /\ parsed.tag = "NotParsed"
    /\ parsed' = TryFrom(entry)
    /\ ret' = Ret("try_from", parsed'.tag)
    /\ UNCHANGED <<stateVars, guardVars, entry, scopeVars, serviceVars, auditVars>>

NextParse == Parse

SpecParse == InitParse /\ [][NextParse]_vars

\* C2: the parser never aborts: whatever the entry, it returns a
\* TransferEvent or one of the rejections PendingLogEntry and
\* InvalidEventSource.
C2_ParseNeverAborts ==
    parsed.tag \in {"NotParsed", "Ok", "PendingLogEntry", "InvalidEventSource"}

\* An entry of the shape the Transfer signature produces: every field
\* present, not removed, topics <<signature, from, to, token id>> with two
\* valid addresses.
WellFormedTransfer(e) ==
    /\ IsSome(e.block_hash) /\ IsSome(e.block_number)
    /\ IsSome(e.transaction_hash) /\ IsSome(e.transaction_index)
    /\ IsSome(e.log_index)
    /\ ~e.removed
    /\ Len(e.topics) = 4
    /\ e.topics[1] = TRANSFER_EVENT_TOPIC
    /\ e.topics[2].hi = 0
    /\ e.topics[3].hi = 0

\* C3: for a well-formed transfer entry the parser returns a TransferEvent
\* whose source is (transactionHash, logIndex) and whose block number,
\* sender, recipient and token id are those of the entry.
C3_ParseAcceptsTransfer ==
    (parsed.tag # "NotParsed" /\ WellFormedTransfer(entry))
    => /\ parsed.tag = "Ok"
       /\ source(parsed.event) = [transaction_hash |-> Unwrap(entry.transaction_hash),
                                  log_index |-> Unwrap(entry.log_index)]
       /\ parsed.event.block_number = Unwrap(entry.block_number)
       /\ parsed.event.from_address = entry.topics[2].lo
       /\ parsed.event.to_address = entry.topics[3].lo
       /\ parsed.event.token_id = from_be_bytes(entry.topics[4])

\* Some field that a finalized entry carries is missing.
MissingField(e) ==
    \/ e.block_hash = None
    \/ e.block_number = None
    \/ e.transaction_hash = None
    \/ e.transaction_index = None
    \/ e.log_index = None

EntrySource(e) ==
    [transaction_hash |-> Unwrap(e.transaction_hash),
     log_index |-> Unwrap(e.log_index)]

\* C19: the checks of the parser are applied in a fixed order and stop at
\* the first failure: a missing field gives PendingLogEntry whatever the
\* removed flag and the topics; otherwise removed gives "removed from the
\* chain" whatever the topics; otherwise a topic count other than the one
\* the code expects (3) gives the topic-count rejection; otherwise a
\* malformed address gives an InvalidEvent; every InvalidEventSource carries
\* (transactionHash, logIndex) of the entry.
C19_ParseCheckOrder ==
    parsed.tag # "NotParsed" =>
      /\ MissingField(entry) => parsed = PendingLogEntry
      /\ (~MissingField(entry) /\ entry.removed)
         => parsed = InvalidEventSource(EntrySource(entry),
                        "this event has been removed from the chain")
      /\ (~MissingField(entry) /\ ~entry.removed /\ Len(entry.topics) # 3)
         => parsed = InvalidEventSource(EntrySource(entry),
                        "Expected exactly 3 topics")
      /\ (/\ ~MissingField(entry) /\ ~entry.removed /\ Len(entry.topics) = 3
          /\ (entry.topics[2].hi # 0 \/ entry.topics[3].hi # 0))
         => parsed = InvalidEventSource(EntrySource(entry),
                        "Invalid address in log entry")
      /\ parsed.tag = "InvalidEventSource"
         => (~MissingField(entry) /\ parsed.source = EntrySource(entry))

\* A removed entry with a wrong topic count and a malformed address was
\* rejected as removed.
C19_Witness ==
    /\ parsed.tag = "InvalidEventSource"
    /\ parsed.error = "this event has been removed from the chain"
    /\ entry.removed
    /\ Len(entry.topics) = 4
    /\ entry.topics[2].hi # 0


(***************************************************************************)
(* The timer guard (guard/mod.rs).  guards[p] is the TimerGuard value held *)
(* by pass p, if any; dropping it runs Drop for TimerGuard.                *)
(***************************************************************************)
Call(op, task, result) == [op |-> op, task |-> task, result |-> result]

\* The last three calls, oldest first.
Remember(call) ==
    LET all == Append(trail, call) IN
    IF Len(all) > 3 THEN Tail(all) ELSE all

\* TimerGuard::new that admits a task kind already in active_tasks.
TimerGuard_new_unchecked(p, task) ==
    /\ guards[p] = None
    /\ active_tasks' = active_tasks \cup {task}
    /\ guards' = [guards EXCEPT ![p] = Some(task)]
    /\ ret' = Ret("TimerGuard::new", "Ok")
    /\ trail' = Remember(Call("new", task, "Ok"))

\* TimerGuard::new whose failed attempt releases the task kind, as if a
\* guard had been created for it and dropped.
TimerGuard_new_failed_releases(p, task) ==
    /\ guards[p] = None
    /\ IF task \in active_tasks
       THEN /\ ret' = Ret("TimerGuard::new", "AlreadyProcessing")
            /\ trail' = Remember(Call("new", task, "AlreadyProcessing"))
            /\ active_tasks' = active_tasks \ {task}
            /\ UNCHANGED guards
       ELSE /\ active_tasks' = active_tasks \cup {task}
            /\ guards' = [guards EXCEPT ![p] = Some(task)]
            /\ ret' = Ret("TimerGuard::new", "Ok")
            /\ trail' = Remember(Call("new", task, "Ok"))

\* TimerGuard::new that admits a task only while no task of any kind runs.
TimerGuard_new_exclusive(p, task) ==
    /\ guards[p] = None
    /\ IF active_tasks # {}
       THEN /\ ret' = Ret("TimerGuard::new", "AlreadyProcessing")
            /\ trail' = Remember(Call("new", task, "AlreadyProcessing"))
            /\ UNCHANGED <<active_tasks, guards>>
       ELSE /\ active_tasks' = active_tasks \cup {task}
            /\ guards' = [guards EXCEPT ![p] = Some(task)]
            /\ ret' = Ret("TimerGuard::new", "Ok")
            /\ trail' = Remember(Call("new", task, "Ok"))

TimerGuard_new(p, task) ==
    /\ guards[p] = None
    /\ IF task \in active_tasks
       THEN \* active_tasks.insert(task) returned false
            /\ ret' = Ret("TimerGuard::new", "AlreadyProcessing")
            /\ trail' = Remember(Call("new", task, "AlreadyProcessing"))
            /\ UNCHANGED <<active_tasks, guards>>
       ELSE /\ active_tasks' = active_tasks \cup {task}
            /\ guards' = [guards EXCEPT ![p] = Some(task)]
            /\ ret' = Ret("TimerGuard::new", "Ok")
            /\ trail' = Remember(Call("new", task, "Ok"))

\* Drop for TimerGuard that leaves the task kind in active_tasks.
drop_keep_task(p) ==
    /\ guards[p] # None
    /\ guards' = [guards EXCEPT ![p] = None]
    /\ ret' = Ret("drop", "unit")
    /\ trail' = Remember(Call("drop", Unwrap(guards[p]), "unit"))
    /\ UNCHANGED active_tasks

drop(p) ==
    /\ guards[p] # None
    /\ active_tasks' = active_tasks \ {Unwrap(guards[p])}
    /\ guards' = [guards EXCEPT ![p] = None]
    /\ ret' = Ret("drop", "unit")
    /\ trail' = Remember(Call("drop", Unwrap(guards[p]), "unit"))

Acquire ==
    /\ \E p \in Passes, task \in TaskType : TimerGuard_new(p, task)
    /\ UNCHANGED <<stateVars, parseVars, scopeVars, serviceVars, auditVars>>

Release ==
    /\ \E p \in Passes : drop(p)
    /\ UNCHANGED <<stateVars, parseVars, scopeVars, serviceVars, auditVars>>

NextGuard ==
    \/ Acquire
    \/ Release

SpecGuard == Init /\ [][NextGuard]_vars

\* The task kinds for which a live guard exists.
Held == {Unwrap(guards[p]) : p \in {q \in Passes : guards[q] # None}}

\* C9: an acquisition of a task kind fails with AlreadyProcessing exactly
\* when a guard of that kind was acquired and not yet released, and succeeds
\* otherwise; releasing a guard leaves no live guard of its kind, so the
\* next acquisition of the kind succeeds.
C9_AcquireTwiceFailsUntilRelease ==
    [][/\ \A p \in Passes, task \in TaskType :
            TimerGuard_new(p, task)
            => IF task \in Held
               THEN /\ ret'.result = "AlreadyProcessing"
                    /\ guards' = guards
               ELSE /\ ret'.result = "Ok"
                    /\ guards'[p] = Some(task)
       /\ \A p \in Passes :
            drop(p) => (/\ guards'[p] = None
                        /\ \A q \in Passes : guards'[q] # guards[p]
                        /\ Unwrap(guards[p]) \notin active_tasks')]_vars

\* Scenario D: a second acquisition of ScrapEthLogs was refused, the guard
\* was released and a third acquisition succeeded.
C9_Witness ==
    /\ trail = <<Call("new", "ScrapEthLogs", "AlreadyProcessing"),
                 Call("drop", "ScrapEthLogs", "unit"),
                 Call("new", "ScrapEthLogs", "Ok")>>
    /\ "ScrapEthLogs" \in Held

\* C10: at most one pass holds a live guard of a task kind, and active_tasks
\* is exactly the set of kinds for which a live guard exists.
C10_OneGuardPerKind ==
    /\ \A p, q \in Passes :
          (p # q /\ guards[p] # None) => guards[p] # guards[q]
    /\ active_tasks = Held

\* Two passes hold guards of different kinds and an acquisition of a held
\* kind by a further pass was refused.
C10_Witness ==
    /\ Cardinality(Held) >= 2
    /\ Cardinality({p \in Passes : guards[p] # None}) = Cardinality(Held)
    /\ ret = Ret("TimerGuard::new", "AlreadyProcessing")
    /\ trail[Len(trail)].task \in Held

\* C30: guards of different kinds do not exclude each other: an acquisition
\* of a kind succeeds exactly when that kind is free, whatever other kinds
\* are held, and an acquisition or a release of a kind changes the
\* membership in active_tasks of no other kind.
C30_KindsDoNotExcludeEachOther ==
    [][LET call == trail'[Len(trail')] IN
       /\ \A p \in Passes, task \in TaskType :
            (TimerGuard_new(p, task) /\ task \notin active_tasks)
            => /\ ret'.result = "Ok"
               /\ task \in active_tasks'
       /\ \A task \in TaskType \ {call.task} :
            (task \in active_tasks') <=> (task \in active_tasks)]_vars

\* A kind was acquired while another kind was held, and a third kind was
\* released before that while both others stayed as they were.
C30_Witness ==
    /\ Len(trail) = 3
    /\ trail[2].op = "drop"
    /\ trail[3] = Call("new", "MintCkEth", "Ok")
    /\ "ScrapEthLogs" \in active_tasks
    /\ trail[2].task \notin {"MintCkEth", "ScrapEthLogs"}
    /\ Cardinality(Held) = 2

\* C31: a failed acquisition has no effect: when TimerGuard::new returns
\* AlreadyProcessing, active_tasks and the live guards are as before, the
\* kind is still held by its holder, and a kind leaves active_tasks only
\* when the pass holding its guard drops it.
C31_FailedAcquisitionHasNoEffect ==
    [][/\ ret' = Ret("TimerGuard::new", "AlreadyProcessing")
          => LET task == trail'[Len(trail')].task IN
             /\ active_tasks' = active_tasks
             /\ guards' = guards
             /\ task \in active_tasks'
             /\ \E q \in Passes : guards'[q] = Some(task)
       /\ \A task \in active_tasks \ active_tasks' :
             /\ ret' = Ret("drop", "unit")
             /\ \E q \in Passes : guards[q] = Some(task) /\ guards'[q] = None]_vars

\* RetrieveEth was acquired, two further acquisitions of it were refused,
\* and the one guard of the first acquisition is still live.
C31_Witness ==
    /\ trail = <<Call("new", "RetrieveEth", "Ok"),
                 Call("new", "RetrieveEth", "AlreadyProcessing"),
                 Call("new", "RetrieveEth", "AlreadyProcessing")>>
    /\ active_tasks = {"RetrieveEth"}
    /\ Cardinality({p \in Passes : guards[p] = Some("RetrieveEth")}) = 1

(***************************************************************************)
(* The guarded scope of a pass: the guard is a local of the scope, so      *)
(* leaving the scope on any path drops it (Drop for TimerGuard).           *)
(***************************************************************************)
ExitPaths == {"exited_ok", "exited_error", "exited_early"}

\* let _guard = match TimerGuard::new(task) { Ok(g) => g, Err(_) => return };
EnterScope(p, task) ==
    /\ pc[p] # "in_scope"
    /\ TimerGuard_new(p, task)
    /\ pc' = [pc EXCEPT ![p] = IF task \in active_tasks THEN "idle" ELSE "in_scope"]
    /\ UNCHANGED <<stateVars, parseVars, auditVars, inflight, serviceVars>>

\* The scope is left by normal completion, by an error return or by an early
\* return; the guard goes out of scope on each of them.
ExitScope(p) ==
    /\ pc[p] = "in_scope"
    /\ drop(p)
    /\ \E path \in ExitPaths : pc' = [pc EXCEPT ![p] = path]
    /\ UNCHANGED <<stateVars, parseVars, auditVars, inflight, serviceVars>>

Enter == \E p \in Passes, task \in TaskType : EnterScope(p, task)
Exit == \E p \in Passes : ExitScope(p)

NextScope ==
    \/ Enter
    \/ Exit

\* A pass admitted for a free task kind.
Admit(task) ==
    task \notin active_tasks /\ \E p \in Passes : EnterScope(p, task)

SpecScope == Init /\ [][NextScope]_vars

\* Every pass that entered its scope leaves it, and the timers keep
\* starting passes of every kind.
SpecScopeFair ==
    /\ SpecScope
    /\ \A p \in Passes : WF_vars(ExitScope(p))
    /\ \A task \in TaskType : SF_vars(Admit(task))

MaxLogs == 2        \* entries in one answer of the collaborator

BaseEntry ==
    [block_hash |-> Some(1), block_number |-> Some(1),
     transaction_hash |-> Some(1), transaction_index |-> Some(0),
     log_index |-> Some(0), removed |-> FALSE,
     topics |-> <<TRANSFER_EVENT_TOPIC, [hi |-> 0, lo |-> 1], [hi |-> 0, lo |-> 2]>>]

\* The entries the collaborator returns: one not yet finalized, one removed
\* by a reorg, one with four topics, one with a malformed address and one
\* with three topics and two valid addresses.
ScanEntries ==
    {[BaseEntry EXCEPT !.log_index = None],
     [BaseEntry EXCEPT !.removed = TRUE],
     [BaseEntry EXCEPT !.log_index = Some(1),
                       !.topics = Append(BaseEntry.topics, [hi |-> 0, lo |-> 1])],
     [BaseEntry EXCEPT !.topics[2] = [hi |-> 1, lo |-> 1]],
     BaseEntry}

ConsensusError == [tag |-> "Err", error |-> "ConsensusError"]
FetchOk(entries) == [tag |-> "Ok", entries |-> entries]

FetchResponses ==
    {ConsensusError}
    \cup {FetchOk(es) : es \in UNION {[1..n -> ScanEntries] : n \in 0..MaxLogs}}

\* The filters of partition().
IsOk(r) == r.tag = "Ok"
IsNotOk(r) == r.tag # "Ok"
UnwrapOk(r) == r.event

\* last_received_eth_events that also rejects a range of one block.
last_received_eth_events_strict(from, to, response) ==
    IF from >= to
    THEN [tag |-> "Trap", from |-> from, to |-> to, calls |-> 0, state_read |-> FALSE]
    ELSE IF response.tag = "Err"
    THEN [tag |-> "Err", from |-> from, to |-> to, calls |-> 1, state_read |-> TRUE,
          error |-> response.error]
    ELSE [tag |-> "Ok", from |-> from, to |-> to, calls |-> 1, state_read |-> TRUE,
          valid_transactions |-> <<>>, errors |-> <<>>]

\* last_received_eth_events that takes a failed fetch for an empty answer.
last_received_eth_events_swallow(from, to, response) ==
    IF from > to
    THEN [tag |-> "Trap", from |-> from, to |-> to, calls |-> 0, state_read |-> FALSE]
    ELSE [tag |-> "Ok", from |-> from, to |-> to, calls |-> 1, state_read |-> TRUE,
          valid_transactions |-> <<>>, errors |-> <<>>]

\* The outcome of one call: the range, the number of calls of the
\* collaborator, whether the state was read, and the result.
last_received_eth_events(from, to, response) ==
    IF from > to
    THEN \* ic_cdk::trap("BUG: invalid block range ...")
         [tag |-> "Trap", from |-> from, to |-> to, calls |-> 0, state_read |-> FALSE]
    ELSE IF response.tag = "Err"
    THEN \* .await? returns the error of the collaborator
         [tag |-> "Err", from |-> from, to |-> to, calls |-> 1, state_read |-> TRUE,
          error |-> response.error]
    ELSE LET results == [i \in 1..Len(response.entries) |->
                            TryFrom(response.entries[i])]
             valid == SelectSeq(results, IsOk)
         IN
         IF \E i \in 1..Len(results) : results[i].tag = "Panic"
         THEN [tag |-> "Panic", from |-> from, to |-> to, calls |-> 1,
               state_read |-> TRUE]
         ELSE [tag |-> "Ok", from |-> from, to |-> to, calls |-> 1,
               state_read |-> TRUE,
               valid_transactions |-> [i \in 1..Len(valid) |-> UnwrapOk(valid[i])],
               errors |-> SelectSeq(results, IsNotOk)]

ScanRange ==
    /\ \E from \in Blocks, to \in Blocks, response \in FetchResponses :
          /\ scan' = last_received_eth_events(from, to, response)
                      @@ [response |-> response]
          /\ fetched' = IF scan'.calls = 1 THEN response.tag ELSE fetched
    /\ ret' = Ret("last_received_eth_events", scan'.tag)
    /\ UNCHANGED <<stateVars, guardVars, parseVars, scopeVars, serviceVars, configVars, events>>

NextScan == ScanRange

SpecScan == Init /\ [][NextScan]_vars

\* C20: a call with from > to traps before the collaborator is called and
\* before the state is read, and no step of the scan changes the state; a
\* call with from = to does not trap.
C20_InvalidRangeTraps ==
    [][/\ UNCHANGED <<stateVars, configVars, events>>
       /\ scan'.from > scan'.to
          => (scan'.tag = "Trap" /\ scan'.calls = 0 /\ ~scan'.state_read)
       /\ scan'.from <= scan'.to
          => (scan'.tag # "Trap" /\ scan'.calls = 1)]_vars

\* Some call with an inverted range has trapped.
C20_Witness ==
    /\ scan.tag = "Trap"
    /\ scan.from = scan.to + 1
    /\ ret = Ret("last_received_eth_events", "Trap")

(***************************************************************************)
(* State as a value: the durable fields of one State, and the methods of   *)
(* state.rs and lifecycle/init.rs as functions of such a value.  These are *)
(* what the canister entry points and the replay of the audit log apply.   *)
(***************************************************************************)
Done(s) == [tag |-> "Ok", state |-> s]
\* Err(InvalidStateError::..): the variant, and the State as the call left it.
InvalidStateError(kind) == [tag |-> "Err", error |-> kind]
Failed(kind, s) == [tag |-> "Err", error |-> kind, state |-> s]
Aborted == [tag |-> "Panic"]

\* BlockNumber::MAX on the scale of the model.
BlockNumberMax == 255

\* Address::from_str: the unparsable string has no address.
AddressStrings == ContractAddresses \cup {"bad"}
AddressFromStr(str) ==
    IF str \in ContractAddresses
    THEN [tag |-> "Ok", address |-> str]
    ELSE [tag |-> "Err"]

State_validate_config(s) ==
    IF s.ethereum_contract_address = ZERO
    THEN Failed("InvalidEthereumContractAddress", s)
    ELSE Done(s)

\* BlockNumber::try_from(Nat): a Nat above the maximum is no BlockNumber.
BlockNumberTryFrom(n) ==
    IF n > BlockNumberMax THEN [tag |-> "Err"] ELSE [tag |-> "Ok", value |-> n]

\* BlockNumber::checked_increment
checked_increment(n) == IF n = BlockNumberMax THEN None ELSE Some(n + 1)

Network == {"EthereumMainnet", "EthereumSepolia"}

InitArg == [ethereum_network : {"EthereumSepolia"},
            ethereum_contract_address : {"0xa0", ZERO, "bad"},
            ethereum_block_height : {"Latest"},
            last_scraped_block_number : {0, 1, BlockNumberMax, BlockNumberMax + 1}]

UpgradeArg == [ethereum_contract_address : Option({"0xa1", ZERO, "bad"}),
               ethereum_block_height : Option({"Finalized"})]

\* State::try_from(InitArg) with a wrapping increment in place of
\* checked_increment.
TryFromInitArg_wrapping(arg) ==
    IF AddressFromStr(arg.ethereum_contract_address).tag = "Err"
    THEN InvalidStateError("InvalidEthereumContractAddress")
    ELSE IF BlockNumberTryFrom(arg.last_scraped_block_number).tag = "Err"
    THEN InvalidStateError("InvalidLastScrapedBlockNumber")
    ELSE LET state ==
               [ethereum_network |-> arg.ethereum_network,
                ethereum_contract_address |->
                    AddressFromStr(arg.ethereum_contract_address).address,
                ethereum_block_height |-> arg.ethereum_block_height,
                first_scraped_block_number |->
                    (arg.last_scraped_block_number + 1) % (BlockNumberMax + 1),
                last_scraped_block_number |-> arg.last_scraped_block_number,
                events_to_mint |-> EmptyMap,
                minted_events |-> EmptyMap,
                invalid_events |-> EmptyMap,
                skipped_blocks |-> {}]
         IN IF State_validate_config(state).tag = "Err"
            THEN InvalidStateError(State_validate_config(state).error)
            ELSE Done(state)

\* State::try_from(InitArg) that leaves last_scraped_block_number at its
\* default.
TryFromInitArg_last_default(arg) ==
    IF AddressFromStr(arg.ethereum_contract_address).tag = "Err"
    THEN InvalidStateError("InvalidEthereumContractAddress")
    ELSE IF BlockNumberTryFrom(arg.last_scraped_block_number).tag = "Err"
    THEN InvalidStateError("InvalidLastScrapedBlockNumber")
    ELSE IF checked_increment(arg.last_scraped_block_number) = None
    THEN InvalidStateError("InvalidLastScrapedBlockNumber")
    ELSE LET state ==
               [ethereum_network |-> arg.ethereum_network,
                ethereum_contract_address |->
                    AddressFromStr(arg.ethereum_contract_address).address,
                ethereum_block_height |-> arg.ethereum_block_height,
                first_scraped_block_number |->
                    Unwrap(checked_increment(arg.last_scraped_block_number)),
                last_scraped_block_number |-> 0,
                events_to_mint |-> EmptyMap,
                minted_events |-> EmptyMap,
                invalid_events |-> EmptyMap,
                skipped_blocks |-> {}]
         IN IF State_validate_config(state).tag = "Err"
            THEN InvalidStateError(State_validate_config(state).error)
            ELSE Done(state)

\* impl TryFrom<InitArg> for State
TryFromInitArg(arg) ==
    IF AddressFromStr(arg.ethereum_contract_address).tag = "Err"
    THEN InvalidStateError("InvalidEthereumContractAddress")
    ELSE IF BlockNumberTryFrom(arg.last_scraped_block_number).tag = "Err"
    THEN InvalidStateError("InvalidLastScrapedBlockNumber")
    ELSE IF checked_increment(arg.last_scraped_block_number) = None
    THEN InvalidStateError("InvalidLastScrapedBlockNumber")
    ELSE LET state ==
               [ethereum_network |-> arg.ethereum_network,
                ethereum_contract_address |->
                    AddressFromStr(arg.ethereum_contract_address).address,
                ethereum_block_height |-> arg.ethereum_block_height,
                first_scraped_block_number |->
                    Unwrap(checked_increment(arg.last_scraped_block_number)),
                last_scraped_block_number |-> arg.last_scraped_block_number,
                events_to_mint |-> EmptyMap,
                minted_events |-> EmptyMap,
                invalid_events |-> EmptyMap,
                skipped_blocks |-> {}]
         IN IF State_validate_config(state).tag = "Err"
            THEN InvalidStateError(State_validate_config(state).error)
            ELSE Done(state)

State_record_event_to_mint(s, event) ==
    IF \/ contains_key(s.events_to_mint, source(event))
       \/ contains_key(s.minted_events, source(event))
       \/ contains_key(s.invalid_events, source(event))
    THEN Aborted
    ELSE Done([s EXCEPT !.events_to_mint = MapInsert(@, source(event), event)])

\* record_invalid_deposit that checks the source and records nothing.
State_record_invalid_deposit_forget(s, src, error) ==
    IF \/ contains_key(s.events_to_mint, src)
       \/ contains_key(s.minted_events, src)
    THEN Aborted
    ELSE Done(s)

State_record_invalid_deposit(s, src, error) ==
    IF \/ contains_key(s.events_to_mint, src)
       \/ contains_key(s.minted_events, src)
    THEN Aborted
    ELSE IF contains_key(s.invalid_events, src)
    THEN Done(s)
    ELSE Done([s EXCEPT !.invalid_events = MapInsert(@, src, error)])

\* record_successful_mint that inserts into minted_events without removing
\* the event from events_to_mint.
State_record_successful_mint_keep_pending(s, src) ==
    IF contains_key(s.invalid_events, src) \/ ~contains_key(s.events_to_mint, src)
    THEN Aborted
    ELSE Done([s EXCEPT !.minted_events =
                   MapInsert(@, src, MintedEvent(s.events_to_mint[src]))])

State_record_successful_mint(s, src) ==
    IF contains_key(s.invalid_events, src)
    THEN Aborted
    ELSE IF ~contains_key(s.events_to_mint, src)
    THEN Aborted
    ELSE IF contains_key(s.minted_events, src)
    THEN Aborted
    ELSE Done([s EXCEPT !.events_to_mint = MapRemove(@, src),
                        !.minted_events =
                            MapInsert(@, src, MintedEvent(s.events_to_mint[src]))])

\* record_skipped_block without the assertion.
State_record_skipped_block_unchecked(s, block_number) ==
    Done([s EXCEPT !.skipped_blocks = @ \cup {block_number}])

State_record_skipped_block(s, block_number) ==
    IF block_number \in s.skipped_blocks
    THEN Aborted
    ELSE Done([s EXCEPT !.skipped_blocks = @ \cup {block_number}])

\* upgrade that does not validate the configuration it ends with.
State_upgrade_unvalidated(s, upgrade_args) ==
    IF /\ IsSome(upgrade_args.ethereum_contract_address)
       /\ AddressFromStr(Unwrap(upgrade_args.ethereum_contract_address)).tag = "Err"
    THEN Failed("InvalidEthereumContractAddress", s)
    ELSE LET s1 == IF IsSome(upgrade_args.ethereum_contract_address)
                   THEN [s EXCEPT !.ethereum_contract_address =
                            AddressFromStr(Unwrap(upgrade_args.ethereum_contract_address)).address]
                   ELSE s
             s2 == IF IsSome(upgrade_args.ethereum_block_height)
                   THEN [s1 EXCEPT !.ethereum_block_height =
                            Unwrap(upgrade_args.ethereum_block_height)]
                   ELSE s1
         IN Done(s2)

\* State::upgrade: the fields are overwritten before validate_config runs.
State_upgrade(s, upgrade_args) ==
    IF /\ IsSome(upgrade_args.ethereum_contract_address)
       /\ AddressFromStr(Unwrap(upgrade_args.ethereum_contract_address)).tag = "Err"
    THEN Failed("InvalidEthereumContractAddress", s)
    ELSE LET s1 == IF IsSome(upgrade_args.ethereum_contract_address)
                   THEN [s EXCEPT !.ethereum_contract_address =
                            AddressFromStr(Unwrap(upgrade_args.ethereum_contract_address)).address]
                   ELSE s
             s2 == IF IsSome(upgrade_args.ethereum_block_height)
                   THEN [s1 EXCEPT !.ethereum_block_height =
                            Unwrap(upgrade_args.ethereum_block_height)]
                   ELSE s1
         IN State_validate_config(s2)

\* is_equivalent_to without the comparison of minted_events.
is_equivalent_to_minted_ignored(a, b) ==
    /\ a.ethereum_network = b.ethereum_network
    /\ a.ethereum_contract_address = b.ethereum_contract_address
    /\ a.first_scraped_block_number = b.first_scraped_block_number
    /\ a.last_scraped_block_number = b.last_scraped_block_number
    /\ a.ethereum_block_height = b.ethereum_block_height
    /\ a.events_to_mint = b.events_to_mint
    /\ a.invalid_events = b.invalid_events

\* State::is_equivalent_to: the fields compared by the ensure_eq! lines.
is_equivalent_to(a, b) ==
    /\ a.ethereum_network = b.ethereum_network
    /\ a.ethereum_contract_address = b.ethereum_contract_address
    /\ a.first_scraped_block_number = b.first_scraped_block_number
    /\ a.last_scraped_block_number = b.last_scraped_block_number
    /\ a.ethereum_block_height = b.ethereum_block_height
    /\ a.events_to_mint = b.events_to_mint
    /\ a.minted_events = b.minted_events
    /\ a.invalid_events = b.invalid_events

(***************************************************************************)
(* The audit log (storage.rs, state/event.rs) and its replay.              *)
(***************************************************************************)
EvInit(arg) == [type |-> "Init", arg |-> arg]
EvUpgrade(arg) == [type |-> "Upgrade", arg |-> arg]
EvAcceptedMint(event) == [type |-> "AcceptedMint", event |-> event]
EvInvalidTransfer(src, reason) ==
    [type |-> "InvalidTransfer", event_source |-> src, reason |-> reason]
EvMintedNft(src) == [type |-> "MintedNft", event_source |-> src]
EvSyncedToBlock(n) == [type |-> "SyncedToBlock", block_number |-> n]
EvSkippedBlock(n) == [type |-> "SkippedBlock", block_number |-> n]

\* storage::record_event that writes over the newest entry.
record_event_overwrite(log, payload) ==
    IF log = <<>> THEN <<payload>> ELSE [log EXCEPT ![Len(log)] = payload]

\* storage::record_event: StableLog::append
record_event(log, payload) == Append(log, payload)

\* storage::total_event_count
total_event_count(log) == Len(log)

\* One audit event applied to a State: each event kind through the mutator
\* that wrote it.
apply_state_transition(s, payload) ==
    CASE payload.type = "Init" -> Aborted
      [] payload.type = "Upgrade" ->
            IF State_upgrade(s, payload.arg).tag = "Ok"
            THEN State_upgrade(s, payload.arg)
            ELSE Aborted
      [] payload.type = "AcceptedMint" ->
            State_record_event_to_mint(s, payload.event)
      [] payload.type = "InvalidTransfer" ->
            State_record_invalid_deposit(s, payload.event_source, payload.reason)
      [] payload.type = "MintedNft" ->
            State_record_successful_mint(s, payload.event_source)
      [] payload.type = "SyncedToBlock" ->
            Done([s EXCEPT !.last_scraped_block_number = payload.block_number])
      [] payload.type = "SkippedBlock" ->
            State_record_skipped_block(s, payload.block_number)

RECURSIVE ReplayFrom(_, _, _)
ReplayFrom(result, log, i) ==
    IF result.tag # "Ok" \/ i > Len(log)
    THEN result
    ELSE ReplayFrom(apply_state_transition(result.state, log[i]), log, i + 1)

\* replay_events: the first entry constructs the State, the others are
\* applied in append order.
replay_events(log) ==
    IF log = <<>> THEN Aborted
    ELSE IF log[1].type # "Init" THEN Aborted
    ELSE IF TryFromInitArg(log[1].arg).tag # "Ok" THEN Aborted
    ELSE ReplayFrom(TryFromInitArg(log[1].arg), log, 2)

(***************************************************************************)
(* The canister: entry points of main.rs and the transitions of the        *)
(* orchestrator, each pairing a mutator call with its audit append.  A     *)
(* trap rolls the message back: neither the State nor the log changes.     *)
(***************************************************************************)
LiveState ==
    [ethereum_network |-> ethereum_network,
     ethereum_contract_address |-> ethereum_contract_address,
     ethereum_block_height |-> ethereum_block_height,
     first_scraped_block_number |-> first_scraped_block_number,
     last_scraped_block_number |-> last_scraped_block_number,
     events_to_mint |-> events_to_mint,
     minted_events |-> minted_events,
     invalid_events |-> invalid_events,
     skipped_blocks |-> skipped_blocks]

SetLive(s) ==
    /\ ethereum_network' = s.ethereum_network
    /\ ethereum_contract_address' = s.ethereum_contract_address
    /\ ethereum_block_height' = s.ethereum_block_height
    /\ first_scraped_block_number' = s.first_scraped_block_number
    /\ last_scraped_block_number' = s.last_scraped_block_number
    /\ events_to_mint' = s.events_to_mint
    /\ minted_events' = s.minted_events
    /\ invalid_events' = s.invalid_events
    /\ skipped_blocks' = s.skipped_blocks

liveVars == <<events_to_mint, minted_events, invalid_events,
              ethereum_network, ethereum_contract_address, ethereum_block_height,
              first_scraped_block_number, last_scraped_block_number,
              skipped_blocks>>

\* A State together with the log, while one message executes.
Canister(s, log) == [tag |-> "Ok", state |-> s, log |-> log]

\* process_event: apply the transition, then append the event.
process_event(c, payload) ==
    IF c.tag # "Ok"
    THEN c
    ELSE IF apply_state_transition(c.state, payload).tag # "Ok"
    THEN Aborted
    ELSE Canister(apply_state_transition(c.state, payload).state,
                  record_event(c.log, payload))

RECURSIVE ProcessAll(_, _, _)
ProcessAll(c, payloads, i) ==
    IF i > Len(payloads)
    THEN c
    ELSE ProcessAll(process_event(c, payloads[i]), payloads, i + 1)

MinterInitArg(arg) == [kind |-> "InitArg", arg |-> arg]
MinterUpgradeArg(arg) == [kind |-> "UpgradeArg", arg |-> arg]
MinterArg == {MinterInitArg(a) : a \in InitArg} \cup {MinterUpgradeArg(a) : a \in UpgradeArg}

\* init that constructs the State without recording the Init event.
main_init_unrecorded(log, minter_arg) ==
    IF minter_arg.kind = "UpgradeArg"
    THEN Aborted
    ELSE IF TryFromInitArg(minter_arg.arg).tag # "Ok"
    THEN Aborted
    ELSE Canister(TryFromInitArg(minter_arg.arg).state, log)

\* main.rs init
main_init(log, minter_arg) ==
    IF minter_arg.kind = "UpgradeArg"
    THEN \* ic_cdk::trap("cannot init canister state with upgrade args")
         Aborted
    ELSE IF TryFromInitArg(minter_arg.arg).tag # "Ok"
    THEN \* .expect("BUG: failed to initialize minter")
         Aborted
    ELSE Canister(TryFromInitArg(minter_arg.arg).state,
                  record_event(log, EvInit(minter_arg.arg)))

\* emit_preupgrade_events that records nothing.
emit_preupgrade_events_silent(log, s) == log

\* main.rs emit_preupgrade_events
emit_preupgrade_events(log, s) ==
    record_event(log, EvSyncedToBlock(s.last_scraped_block_number))

\* lifecycle::post_upgrade: the State is rebuilt from the log, then the
\* upgrade arguments are processed as an Upgrade event.
lifecycle_post_upgrade(log, upgrade_args) ==
    IF replay_events(log).tag # "Ok"
    THEN Aborted
    ELSE IF upgrade_args = None
    THEN Canister(replay_events(log).state, log)
    ELSE process_event(Canister(replay_events(log).state, log),
                       EvUpgrade(Unwrap(upgrade_args)))

\* post_upgrade that takes init args for a fresh initialization.
main_post_upgrade_accepts_init(log, minter_arg) ==
    IF minter_arg = None
    THEN lifecycle_post_upgrade(log, None)
    ELSE IF Unwrap(minter_arg).kind = "InitArg"
    THEN IF TryFromInitArg(Unwrap(minter_arg).arg).tag # "Ok"
         THEN Aborted
         ELSE Canister(TryFromInitArg(Unwrap(minter_arg).arg).state,
                       record_event(log, EvInit(Unwrap(minter_arg).arg)))
    ELSE lifecycle_post_upgrade(log, Some(Unwrap(minter_arg).arg))

\* main.rs post_upgrade
main_post_upgrade(log, minter_arg) ==
    IF minter_arg = None
    THEN lifecycle_post_upgrade(log, None)
    ELSE IF Unwrap(minter_arg).kind = "InitArg"
    THEN \* ic_cdk::trap("cannot upgrade canister state with init args")
         Aborted
    ELSE lifecycle_post_upgrade(log, Some(Unwrap(minter_arg).arg))

\* The deposits the orchestrator handles: one event per source.
AuditEvents == {e \in StateEvents :
                  e.transaction_hash = 1 /\ e.token_id = <<0, 1>>}
AuditSources == {source(e) : e \in AuditEvents}

\* The message commits when it did not trap.
Commit(op, c) ==
    IF c.tag = "Ok"
    THEN /\ SetLive(c.state)
         /\ events' = c.log
         /\ ret' = Ret(op, "Ok")
    ELSE /\ UNCHANGED <<liveVars, events>>
         /\ ret' = Ret(op, "panic")

Install ==
    /\ ~installed
    /\ \E minter_arg \in MinterArg :
          /\ Commit("init", main_init(events, minter_arg))
          /\ installed' = (main_init(events, minter_arg).tag = "Ok")
    /\ UNCHANGED <<mint_count, guardVars, parseVars, scopeVars, serviceVars, scan, fetched>>

AcceptDeposit ==
    /\ installed
    /\ Len(events) < MaxEvents
    /\ \E event \in AuditEvents :
          Commit("record_event_to_mint",
                 process_event(Canister(LiveState, events), EvAcceptedMint(event)))
    /\ UNCHANGED <<installed, mint_count, guardVars, parseVars, scopeVars, serviceVars, scan, fetched>>

InvalidDeposit ==
    /\ installed
    /\ Len(events) < MaxEvents
    /\ \E src \in AuditSources :
          Commit("record_invalid_deposit",
                 process_event(Canister(LiveState, events),
                               EvInvalidTransfer(src, "this event has been removed from the chain")))
    /\ UNCHANGED <<installed, mint_count, guardVars, parseVars, scopeVars, serviceVars, scan, fetched>>

Mint ==
    /\ installed
    /\ Len(events) < MaxEvents
    /\ \E src \in AuditSources :
          Commit("record_successful_mint",
                 process_event(Canister(LiveState, events), EvMintedNft(src)))
    /\ UNCHANGED <<installed, mint_count, guardVars, parseVars, scopeVars, serviceVars, scan, fetched>>

SkipBlock ==
    /\ installed
    /\ Len(events) < MaxEvents
    /\ \E block_number \in Blocks :
          Commit("record_skipped_block",
                 process_event(Canister(LiveState, events), EvSkippedBlock(block_number)))
    /\ UNCHANGED <<installed, mint_count, guardVars, parseVars, scopeVars, serviceVars, scan, fetched>>

\* The audit events one answer of the scan turns into: an AcceptedMint per
\* valid event, an InvalidTransfer per invalid entry, nothing for an entry
\* that is still pending, and the new position of the cursor.
InvalidTransferOf(r) == EvInvalidTransfer(r.source, r.error)
IsInvalidEventSource(r) == r.tag = "InvalidEventSource"
ScrapePayloads(scanned) ==
    [i \in 1..Len(scanned.valid_transactions) |->
        EvAcceptedMint(scanned.valid_transactions[i])]
    \o [i \in 1..Len(SelectSeq(scanned.errors, IsInvalidEventSource)) |->
          InvalidTransferOf(SelectSeq(scanned.errors, IsInvalidEventSource)[i])]
    \o <<EvSyncedToBlock(scanned.to)>>

\* One pass of the log scrape over the blocks after the cursor.
scrape_eth_logs(c, to, response) ==
    LET scanned == last_received_eth_events(
                       c.state.last_scraped_block_number + 1, to, response)
    IN IF scanned.tag = "Err"
       THEN [tag |-> "Err"]
       ELSE IF scanned.tag # "Ok"
       THEN Aborted
       ELSE ProcessAll(c, ScrapePayloads(scanned), 1)

ScrapePass ==
    /\ installed
    /\ \E to \in Blocks, response \in FetchResponses :
          /\ to > last_scraped_block_number
          /\ Len(events) + (IF response.tag = "Ok" THEN Len(response.entries) ELSE 0)
                < MaxEvents
          /\ LET c == scrape_eth_logs(Canister(LiveState, events), to, response)
             IN IF c.tag = "Err"
                THEN /\ UNCHANGED <<liveVars, events>>
                     /\ ret' = Ret("scrape_eth_logs", "Err")
                ELSE Commit("scrape_eth_logs", c)
          /\ fetched' = response.tag
    /\ UNCHANGED <<installed, mint_count, guardVars, parseVars, scopeVars, serviceVars, scan>>

\* pre_upgrade and post_upgrade of one upgrade: either both commit, or the
\* canister keeps the State and the log it had.  A committed upgrade starts
\* with a fresh heap.
UpgradeCanister ==
    /\ installed
    /\ \E minter_arg \in Option(MinterArg) :
          /\ Len(events) + (IF minter_arg = None THEN 1 ELSE 2) <= MaxEvents
          /\ LET c == main_post_upgrade(
                          emit_preupgrade_events(events, LiveState), minter_arg)
             IN /\ Commit("post_upgrade", c)
                /\ IF c.tag = "Ok"
                   THEN /\ active_tasks' = {}
                        /\ guards' = [p \in Passes |-> None]
                        /\ http_request_counter' = 0
                   ELSE UNCHANGED <<active_tasks, guards, http_request_counter>>
    /\ UNCHANGED <<installed, mint_count, trail, parseVars, scopeVars, assets,
                   reply, scan, fetched>>

\* main.rs check_audit_log, a query: nothing it writes is kept.
check_audit_log(log, s) ==
    IF replay_events(emit_preupgrade_events(log, s)).tag # "Ok"
    THEN "panic"
    ELSE IF ~is_equivalent_to(replay_events(emit_preupgrade_events(log, s)).state, s)
    THEN \* .expect("replaying the audit log should produce an equivalent state")
         "panic"
    ELSE "Ok"

CheckAuditLog ==
    /\ installed
    /\ ret' = Ret("check_audit_log", check_audit_log(events, LiveState))
    /\ UNCHANGED <<liveVars, events, installed, mint_count, guardVars,
                   parseVars, scopeVars, serviceVars, scan, fetched>>

NextAudit ==
    \/ Install
    \/ AcceptDeposit
    \/ InvalidDeposit
    \/ Mint
    \/ SkipBlock
    \/ ScrapePass
    \/ UpgradeCanister
    \/ CheckAuditLog

SpecAudit == Init /\ [][NextAudit]_vars

\* The audit entries that concern one source.
Concerns(payload, src) ==
    \/ payload.type = "AcceptedMint" /\ source(payload.event) = src
    \/ payload.type \in {"InvalidTransfer", "MintedNft"} /\ payload.event_source = src
EntriesFor(log, src) == {i \in 1..Len(log) : Concerns(log[i], src)}

SingleAppends == {"init", "record_event_to_mint", "record_invalid_deposit",
                  "record_successful_mint", "record_skipped_block"}

\* C17: every step leaves the entries already in the audit log in place and
\* unmodified; an append makes the log one entry longer and puts the event
\* at the last index.
C17_AuditLogAppendOnly ==
    [][/\ Len(events') >= Len(events)
       /\ SubSeq(events', 1, Len(events)) = events
       /\ (ret'.op \in SingleAppends /\ ret'.result = "Ok")
          => total_event_count(events') = total_event_count(events) + 1
       /\ \A n \in Blocks :
             /\ total_event_count(record_event(events, EvSkippedBlock(n)))
                   = total_event_count(events) + 1
             /\ record_event(events, EvSkippedBlock(n))[total_event_count(events) + 1]
                   = EvSkippedBlock(n)]_vars

\* Three entries have been appended, the last by a mutator call.
C17_Witness ==
    /\ Len(events) >= 3
    /\ ret = Ret("record_skipped_block", "Ok")
    /\ events[Len(events)].type = "SkippedBlock"

\* C18: the log is empty exactly until init succeeds; its first entry is
\* the Init entry and no later entry is an Init; post_upgrade with init
\* args and init with upgrade args abort.
C18_InitFirstAndUnique ==
    /\ installed <=> events # <<>>
    /\ events # <<>>
       => /\ events[1].type = "Init"
          /\ \A i \in 2..Len(events) : events[i].type # "Init"
    /\ \A a \in InitArg :
          main_post_upgrade(emit_preupgrade_events(events, LiveState),
                            Some(MinterInitArg(a))).tag = "Panic"
    /\ \A a \in UpgradeArg :
          main_init(events, MinterUpgradeArg(a)).tag = "Panic"

\* An upgrade has committed and appended its Upgrade entry.
C18_Witness ==
    /\ installed
    /\ events[1].type = "Init"
    /\ \E i \in 2..Len(events) : events[i].type = "Upgrade"

\* C21: when the fetch succeeds, the collaborator was called once and the
\* scan returns, with every returned entry classified once: the valid
\* events and the rejections together are as many as the entries, and each
\* list holds the parse results of its entries in the order of the entries.
C21_EveryEntryClassifiedOnce ==
    (scan.tag # "NotCalled" /\ scan.calls = 1 /\ scan.response.tag = "Ok")
    => /\ scan.tag = "Ok"
       /\ Len(scan.valid_transactions) + Len(scan.errors)
             = Len(scan.response.entries)
       /\ LET results == [i \in 1..Len(scan.response.entries) |->
                              TryFrom(scan.response.entries[i])]
          IN /\ scan.errors = SelectSeq(results, IsNotOk)
             /\ \A i \in 1..Len(scan.valid_transactions) :
                   Ok(scan.valid_transactions[i]) = SelectSeq(results, IsOk)[i]

\* The rejections one answer holds for the pass that starts after the
\* cursor, and the State and log the canister has once the pass is over.
Scanned(to, response) ==
    last_received_eth_events(last_scraped_block_number + 1, to, response)
InvalidRejections(scanned) == SelectSeq(scanned.errors, IsInvalidEventSource)
IsInvalidTransferEntry(payload) == payload.type = "InvalidTransfer"
PassOutcome(to, response) ==
    IF scrape_eth_logs(Canister(LiveState, events), to, response).tag = "Ok"
    THEN scrape_eth_logs(Canister(LiveState, events), to, response)
    ELSE Canister(LiveState, events)

C23_SkippedBlockRecordedOnce ==
    [][/\ (installed /\ installed') => skipped_blocks \subseteq skipped_blocks'
       /\ ret'.op = "record_skipped_block"
          => /\ UNCHANGED <<events_to_mint, minted_events, invalid_events,
                            first_scraped_block_number, last_scraped_block_number>>
             /\ ret'.result = "Ok"
                => \E n \in Blocks \ skipped_blocks :
                      skipped_blocks' = skipped_blocks \cup {n}
             /\ ret'.result = "panic" => skipped_blocks' = skipped_blocks
       /\ \A n \in Blocks :
             State_record_skipped_block(LiveState, n)
                = IF n \in skipped_blocks
                  THEN Aborted
                  ELSE Done([LiveState EXCEPT !.skipped_blocks = @ \cup {n}])]_vars

\* A block that was already skipped has been skipped again, and the call
\* aborted.
C23_Witness ==
    /\ ret = Ret("record_skipped_block", "panic")
    /\ skipped_blocks # {}
    /\ \E i \in 1..Len(events) : events[i].type = "SkippedBlock"

\* C24: upgrade overwrites the contract address only when one is supplied
\* and the block height only when one is supplied; it returns
\* InvalidEthereumContractAddress when the supplied address does not parse
\* or the resulting address is the zero address, and Ok otherwise; with
\* neither supplied it returns Ok and changes nothing.
C24_UpgradeOverwritesWhatIsSupplied ==
    installed =>
    \A args \in UpgradeArg :
        LET r == State_upgrade(LiveState, args)
            supplied == IsSome(args.ethereum_contract_address)
            unparsable == supplied /\ Unwrap(args.ethereum_contract_address) = "bad"
            address == IF supplied
                       THEN Unwrap(args.ethereum_contract_address)
                       ELSE ethereum_contract_address
            height == IF IsSome(args.ethereum_block_height)
                      THEN Unwrap(args.ethereum_block_height)
                      ELSE ethereum_block_height
        IN /\ (unparsable \/ address = ZERO)
              => (r.tag = "Err" /\ r.error = "InvalidEthereumContractAddress")
           /\ ~(unparsable \/ address = ZERO)
              => r = Done([LiveState EXCEPT !.ethereum_contract_address = address,
                                            !.ethereum_block_height = height])
           /\ (args.ethereum_contract_address = None
               /\ args.ethereum_block_height = None)
              => r = Done(LiveState)

\* An upgrade that supplied a contract address and no block height has
\* been applied.
C24_Witness ==
    /\ installed
    /\ ret = Ret("post_upgrade", "Ok")
    /\ ethereum_contract_address = "0xa1"
    /\ ethereum_block_height = "Latest"
    /\ events[Len(events)].type = "Upgrade"

C32_FailedUpgradeChangesNothing ==
    installed =>
    \A args \in UpgradeArg :
        LET r == State_upgrade(LiveState, args)
        IN r.tag = "Err"
           => /\ r.state.ethereum_contract_address = ethereum_contract_address
              /\ r.state.ethereum_block_height = ethereum_block_height

(***************************************************************************)
(* State::is_equivalent_to applied to the State of the canister and to     *)
(* States that differ from it in at most two fields.                       *)
(***************************************************************************)
\* The State held in STATE, transient fields included.
Self ==
    LiveState @@ [active_tasks |-> active_tasks,
                  http_request_counter |-> http_request_counter]

Fields == {"ethereum_network", "ethereum_contract_address",
           "first_scraped_block_number", "last_scraped_block_number",
           "ethereum_block_height", "events_to_mint", "minted_events",
           "invalid_events", "active_tasks", "http_request_counter"}

\* A deposit of a transaction the canister has not handled.
OtherEvent(log_index) ==
    [transaction_hash |-> 2, block_number |-> 1, log_index |-> log_index,
     from_address |-> 1, to_address |-> 2, token_id |-> <<0, 1>>]

Toggle(map, key, value) ==
    IF contains_key(map, key) THEN MapRemove(map, key) ELSE MapInsert(map, key, value)

\* Another value for one field of a State.
Alt(s, field) ==
    CASE field = "ethereum_network" ->
            IF s.ethereum_network = "EthereumSepolia"
            THEN "EthereumMainnet" ELSE "EthereumSepolia"
      [] field = "ethereum_contract_address" ->
            IF s.ethereum_contract_address = "0xa1" THEN "0xa0" ELSE "0xa1"
      [] field = "first_scraped_block_number" -> s.first_scraped_block_number - 1
      [] field = "last_scraped_block_number" -> s.last_scraped_block_number + 1
      [] field = "ethereum_block_height" ->
            IF s.ethereum_block_height = "Latest" THEN "Finalized" ELSE "Latest"
      [] field = "events_to_mint" ->
            Toggle(s.events_to_mint, source(OtherEvent(0)), OtherEvent(0))
      [] field = "minted_events" ->
            Toggle(s.minted_events, source(OtherEvent(1)), MintedEvent(OtherEvent(1)))
      [] field = "invalid_events" ->
            Toggle(s.invalid_events, [transaction_hash |-> 1, log_index |-> 0],
                   "Invalid address in log entry")
      [] field = "active_tasks" ->
            IF "ScrapEthLogs" \in s.active_tasks
            THEN s.active_tasks \ {"ScrapEthLogs"}
            ELSE s.active_tasks \cup {"ScrapEthLogs"}
      [] field = "http_request_counter" -> s.http_request_counter + 1

Perturb(s, changed) ==
    [f \in DOMAIN s |-> IF f \in changed THEN Alt(s, f) ELSE s[f]]

Variants(s) ==
    {Perturb(s, changed) : changed \in {c \in SUBSET Fields : Cardinality(c) <= 2}}

Compare ==
    /\ installed
    /\ \E other \in Variants(Self) :
          /\ reply' = [tag |-> "is_equivalent_to", self |-> Self, other |-> other,
                       result |-> is_equivalent_to(Self, other)]
          /\ ret' = Ret("is_equivalent_to",
                        IF is_equivalent_to(Self, other) THEN "Ok" ELSE "Err")
    /\ UNCHANGED <<stateVars, guardVars, parseVars, scopeVars, auditVars,
                   http_request_counter, assets>>

NextEquiv ==
    \/ Install
    \/ InvalidDeposit
    \/ Compare

SpecEquiv == Init /\ [][NextEquiv]_vars

\* C25 as stated: two States are equivalent exactly when they agree on the
\* network, the contract address, the first and last scraped block and the
\* three maps.
C25_EquivalentIffListedFieldsAgree ==
    reply.tag = "is_equivalent_to"
    => (reply.result
        <=> \A f \in {"ethereum_network", "ethereum_contract_address",
                      "first_scraped_block_number", "last_scraped_block_number",
                      "events_to_mint", "minted_events", "invalid_events"} :
               reply.self[f] = reply.other[f])

\* C25: two States are equivalent exactly when they agree on the network,
\* the contract address, the first and last scraped block, the block height
\* and the three maps; active_tasks and http_request_counter are ignored;
\* the relation is reflexive, symmetric and transitive.
C25_EquivalentIffDurableFieldsAgree ==
    reply.tag = "is_equivalent_to"
    => /\ reply.result
          <=> \A f \in Fields \ {"active_tasks", "http_request_counter"} :
                 reply.self[f] = reply.other[f]
       /\ \A changed \in SUBSET {"active_tasks", "http_request_counter"} :
             is_equivalent_to(reply.self, Perturb(reply.self, changed))
       /\ is_equivalent_to(reply.self, reply.self)
       /\ is_equivalent_to(reply.other, reply.other)
       /\ is_equivalent_to(reply.self, reply.other)
             <=> is_equivalent_to(reply.other, reply.self)
       /\ \A third \in Variants(reply.self) :
             (is_equivalent_to(reply.self, reply.other)
              /\ is_equivalent_to(reply.other, third))
             => is_equivalent_to(reply.self, third)

\* The State has been compared with one that differs from it in
\* active_tasks and http_request_counter only, and with nothing else.
C25_Witness ==
    /\ reply.tag = "is_equivalent_to"
    /\ reply.result
    /\ reply.other.active_tasks # reply.self.active_tasks
    /\ reply.other.http_request_counter # reply.self.http_request_counter
    /\ reply.self.invalid_events # EmptyMap

Paths == {"/metadata/1", "/image/1"}
Asset == {[headers |-> <<>>, bytes |-> <<1>>],
          [headers |-> <<<<"Content-Type", "image/png">>>>, bytes |-> <<2, 3>>]}

\* Storable for Asset: the fields n(0), n(1) as a CBOR array, and back.
Asset_to_bytes(asset) == <<asset.headers, asset.bytes>>
Asset_from_bytes(bytes) == [headers |-> bytes[1], bytes |-> bytes[2]]

\* store_asset that keeps the asset a path already has.
store_asset_first_wins(store, path, asset) ==
    IF contains_key(store, path)
    THEN store
    ELSE MapInsert(store, path, Asset_to_bytes(asset))

\* storage::store_asset: StableBTreeMap::insert
store_asset(store, path, asset) == MapInsert(store, path, Asset_to_bytes(asset))

\* storage::get_asset: StableBTreeMap::get
get_asset(store, path) ==
    IF contains_key(store, path)
    THEN Some(Asset_from_bytes(store[path]))
    ELSE None

StoreAsset ==
    /\ \E path \in Paths, asset \in Asset :
          /\ assets' = store_asset(assets, path, asset)
          /\ reply' = [tag |-> "store_asset", path |-> path, asset |-> asset]
    /\ ret' = Ret("store_asset", "unit")
    /\ UNCHANGED <<stateVars, guardVars, parseVars, scopeVars, auditVars,
                   http_request_counter>>

GetAsset ==
    /\ \E path \in Paths :
          reply' = [tag |-> "get_asset", path |-> path,
                    result |-> get_asset(assets, path)]
    /\ ret' = Ret("get_asset", "unit")
    /\ UNCHANGED <<stateVars, guardVars, parseVars, scopeVars, auditVars,
                   http_request_counter, assets>>

NextStore ==
    \/ Install
    \/ InvalidDeposit
    \/ StoreAsset
    \/ GetAsset

SpecStore == Init /\ [][NextStore]_vars

\* C27: store_asset makes get_asset of its path return its asset and leaves
\* every other path, the audit log and the State as they are; no path has
\* an asset before it is stored; get_asset returns what the store holds;
\* and no other operation changes the store.
C27_AssetStoreLastWriteWins ==
    [][/\ ret'.op = "store_asset"
          => /\ get_asset(assets', reply'.path) = Some(reply'.asset)
             /\ \A path \in Paths \ {reply'.path} :
                   get_asset(assets', path) = get_asset(assets, path)
             /\ UNCHANGED <<liveVars, installed, events>>
       /\ ret'.op # "store_asset" => assets' = assets
       /\ ret'.op = "get_asset"
          => /\ reply'.result = get_asset(assets, reply'.path)
             /\ (reply'.result = None) <=> ~contains_key(assets, reply'.path)
       /\ ~installed /\ events = <<>> /\ ret.op = "none"
          => \A path \in Paths : get_asset(assets, path) = None]_vars

\* Both paths hold an asset, the log has grown, and a stored asset was read.
C27_Witness ==
    /\ reply.tag = "get_asset"
    /\ IsSome(reply.result)
    /\ DOMAIN assets = Paths
    /\ Len(events) >= 2

(***************************************************************************)
(* get_events (main.rs): the page of the audit log a query asks for.       *)
(***************************************************************************)
MAX_EVENTS_PER_RESPONSE == 100

\* u64 and usize on the scale of the model: u64 has 12 bits, usize has 8
\* bits on wasm32 and is as wide as u64 on a 64-bit target.
U64 == 4096
Usize == {256, U64}

Min(a, b) == IF a < b THEN a ELSE b

\* map_event: the Candid form of an event; AcceptedMint is exported as
\* AcceptedTransfer.
map_event(payload) ==
    IF payload.type = "AcceptedMint"
    THEN [type |-> "AcceptedTransfer", event |-> payload.event]
    ELSE payload

\* it.skip(n).take(m)
SkipTake(log, n, m) == SubSeq(log, n + 1, Min(n + m, Len(log)))

\* get_events: `as usize` keeps the low bits that fit the target's usize.
get_events(log, start, length, usize) ==
    LET page == SkipTake(log, start % usize,
                         Min(length, MAX_EVENTS_PER_RESPONSE) % usize)
    IN [events |-> [i \in 1..Len(page) |-> map_event(page[i])],
        total_event_count |-> total_event_count(log)]

Starts == (0..(MaxEvents + 1)) \cup {256, 257, U64 - 1}
Lengths == {0, 1, 2, MAX_EVENTS_PER_RESPONSE, MAX_EVENTS_PER_RESPONSE + 1, U64 - 1}

GetEvents ==
    /\ \E start \in Starts, length \in Lengths, usize \in Usize :
          reply' = [tag |-> "get_events", start |-> start, length |-> length,
                    result |-> get_events(events, start, length, usize)]
    /\ ret' = Ret("get_events", "unit")
    /\ UNCHANGED <<stateVars, guardVars, parseVars, scopeVars, auditVars,
                   http_request_counter, assets>>

NextExport ==
    \/ Install
    \/ AcceptDeposit
    \/ InvalidDeposit
    \/ GetEvents

SpecExport == Init /\ [][NextExport]_vars

\* C28: get_events(start, length) returns the entries at the indices
\* start .. min(start + min(length, 100), len) - 1 in append order, none
\* when start >= len and never more than 100, with total_event_count = len,
\* and changes neither the log nor the State.
C28_GetEventsReturnsThePage ==
    [][ret'.op = "get_events"
       => /\ UNCHANGED <<liveVars, installed, events>>
          /\ reply'.result.total_event_count = Len(events)
          /\ Len(reply'.result.events) <= 100
          /\ reply'.start >= Len(events) => reply'.result.events = <<>>
          /\ LET last == Min(reply'.start + Min(reply'.length, 100), Len(events))
             IN reply'.result.events
                   = [i \in 1..(IF last > reply'.start THEN last - reply'.start ELSE 0)
                         |-> map_event(events[reply'.start + i])]]_vars

(***************************************************************************)
(* The timers (main.rs setup_timers): the immediate timer and every tick   *)
(* of the interval timer spawn a pass of scrape_eth_logs.  A pass takes    *)
(* the ScrapEthLogs guard, reads the cursor, awaits the collaborator and   *)
(* processes the answer in the callback; other passes may start while it   *)
(* is suspended.                                                           *)
(***************************************************************************)
\* The entries of block b the collaborator may return.
ChainEntries(b) ==
    {[e EXCEPT !.block_number = Some(b), !.transaction_hash = Some(b)] :
        e \in ScanEntries}

\* The answers to eth_get_logs for the blocks from..to: an error, or at most
\* one entry of each block, in block order.
RangeResponses(from, to) ==
    {ConsensusError}
    \cup {FetchOk(es) :
            es \in {x \in UNION {[1..n -> UNION {ChainEntries(b) : b \in from..to}] :
                                    n \in 0..MaxLogs} :
                      \A i, j \in DOMAIN x :
                          i < j => Unwrap(x[i].block_number) < Unwrap(x[j].block_number)}}

\* The callback of a pass: scan the answer for the range the pass asked for
\* and process what the scan returns.
scrape_eth_logs_range(c, from, to, response) ==
    LET scanned == last_received_eth_events(from, to, response)
    IN IF scanned.tag = "Err"
       THEN [tag |-> "Err"]
       ELSE IF scanned.tag # "Ok"
       THEN [tag |-> "Trap"]
       ELSE ProcessAll(c, ScrapePayloads(scanned), 1)

\* The first message of a pass, up to the await.
StartPass(p) ==
    /\ installed
    /\ pc[p] # "awaiting"
    /\ TimerGuard_new(p, "ScrapEthLogs")
    /\ IF ret'.result = "AlreadyProcessing"
       THEN \* Err(_) => return
            /\ pc' = [pc EXCEPT ![p] = "refused"]
            /\ UNCHANGED inflight
       ELSE \E to \in Blocks :
               /\ to > last_scraped_block_number
               /\ pc' = [pc EXCEPT ![p] = "awaiting"]
               /\ inflight' = [inflight EXCEPT ![p] =
                     Some([from |-> last_scraped_block_number + 1, to |-> to])]
    /\ UNCHANGED <<stateVars, parseVars, auditVars, serviceVars>>

\* A trapped callback is rolled back; the guard of the pass is dropped when
\* the runtime cleans the pass up and stays in place when it does not.
AbandonPass(p, outcome) ==
    /\ pc' = [pc EXCEPT ![p] = outcome]
    /\ UNCHANGED <<liveVars, events>>
    /\ \/ drop(p)
       \/ /\ ret' = Ret("scrape_eth_logs", "panic")
          /\ UNCHANGED guardVars

\* The callback of a pass: the answer has arrived.
FinishPass(p) ==
    /\ pc[p] = "awaiting"
    /\ Len(events) < MaxEvents
    /\ LET range == Unwrap(inflight[p]) IN
       \E response \in RangeResponses(range.from, range.to) :
          /\ fetched' = response.tag
          /\ LET c == scrape_eth_logs_range(Canister(LiveState, events),
                                            range.from, range.to, response)
             IN CASE c.tag = "Ok" ->
                       /\ SetLive(c.state)
                       /\ events' = c.log
                       /\ pc' = [pc EXCEPT ![p] = "done"]
                       /\ drop(p)
                  [] c.tag = "Err" ->
                       /\ UNCHANGED <<liveVars, events>>
                       /\ pc' = [pc EXCEPT ![p] = "fetch_failed"]
                       /\ drop(p)
                  [] c.tag = "Trap" -> AbandonPass(p, "trapped")
                  [] OTHER -> AbandonPass(p, "aborted")
    /\ inflight' = [inflight EXCEPT ![p] = None]
    /\ UNCHANGED <<installed, mint_count, parseVars, serviceVars, scan>>

Start == \E p \in Passes : StartPass(p)
Finish == \E p \in Passes : FinishPass(p)

NextTimers ==
    \/ Install
    \/ Start
    \/ Finish

SpecTimers == Init /\ [][NextTimers]_vars

Awaiting == {p \in Passes : pc[p] = "awaiting"}
Deliveries(log, src) ==
    {i \in EntriesFor(log, src) : log[i].type \in {"AcceptedMint", "InvalidTransfer"}}

\* C29: while a pass of the log scrape is suspended awaiting the
\* collaborator, every other pass that starts fails admission with
\* AlreadyProcessing and changes neither the State nor the audit log, so no
\* two passes are ever suspended together; under every interleaving no
\* deposit source is delivered twice and no pass aborts on a source that is
\* already known.
C29_OverlappingPassRefused ==
    /\ [](Cardinality(Awaiting) <= 1)
    /\ [][(Awaiting # {} /\ ret'.op = "TimerGuard::new")
          => /\ ret'.result = "AlreadyProcessing"
             /\ \E p \in Passes \ Awaiting : pc'[p] = "refused"
             /\ UNCHANGED <<liveVars, events, inflight, active_tasks, guards>>]_vars
    /\ [](\A src \in {[transaction_hash |-> b, log_index |-> i] :
                         b \in Blocks, i \in 0..1} :
            Cardinality(Deliveries(events, src)) <= 1)
    /\ [](\A p \in Passes : pc[p] # "aborted")

\* A pass has delivered a rejected deposit, a later pass is suspended and a
\* further pass was refused meanwhile.
C29_Witness ==
    /\ Awaiting # {}
    /\ \E p \in Passes : pc[p] = "refused"
    /\ \E p \in Passes : pc[p] = "done"
    /\ ret = Ret("TimerGuard::new", "AlreadyProcessing")
    /\ \E i \in 1..Len(events) : events[i].type = "InvalidTransfer"

(***************************************************************************)
(* The request counter (state.rs next_request_id): a u64 that correlates   *)
(* requests and responses in the logs.                                     *)
(***************************************************************************)
\* next_request_id whose counter stops at the maximum.
next_request_id_saturating(s) ==
    [id |-> s.http_request_counter,
     state |-> [s EXCEPT !.http_request_counter =
                   IF @ = U64 - 1 THEN @ ELSE @ + 1]]

\* State::next_request_id: the current value is returned and the counter
\* becomes wrapping_add(1).
next_request_id(s) ==
    [id |-> s.http_request_counter,
     state |-> [s EXCEPT !.http_request_counter = (@ + 1) % U64]]

NextRequestId ==
    /\ installed
    /\ LET r == next_request_id(Self) IN
          /\ SetLive(r.state)
          /\ active_tasks' = r.state.active_tasks
          /\ http_request_counter' = r.state.http_request_counter
          /\ reply' = [tag |-> "next_request_id", id |-> r.id]
    /\ ret' = Ret("next_request_id", "unit")
    /\ UNCHANGED <<installed, mint_count, guards, trail, parseVars, scopeVars,
                   events, scan, fetched, assets>>

NextCounter ==
    \/ Install
    \/ InvalidDeposit
    \/ NextRequestId

SpecCounter == Init /\ [][NextCounter]_vars

\* C35: next_request_id returns the current http_request_counter and leaves
\* the counter one higher modulo 2^64, so a call at the maximum returns the
\* maximum and wraps the counter to 0 without aborting; the call changes no
\* durable field and the State after it is equivalent to the State before.
C35_RequestIdWraps ==
    [][ret'.op = "next_request_id"
       => /\ ret'.result = "unit"
          /\ reply'.id = http_request_counter
          /\ http_request_counter' = (http_request_counter + 1) % U64
          /\ http_request_counter' \in 0..(U64 - 1)
          /\ http_request_counter = U64 - 1 => http_request_counter' = 0
          /\ UNCHANGED <<liveVars, events, active_tasks>>
          /\ is_equivalent_to(Self, Self')]_vars

\* The call at the maximum has returned the maximum and the counter is 0
\* again, in a State that holds an invalid deposit.
C35_Witness ==
    /\ ret = Ret("next_request_id", "unit")
    /\ reply = [tag |-> "next_request_id", id |-> U64 - 1]
    /\ http_request_counter = 0
    /\ DOMAIN invalid_events # {}

====
